---- MODULE Spec2Model ----
(***************************************************************************)
(* Model of src/nc_parse_reverce.py: parse_nc_file (variable resolver,     *)
(* missing-value normaliser, grid materialiser, point extractor, output    *)
(* assembler) and main (batch driver writing the per-file artifacts).      *)
(*                                                                         *)
(* Strings are sequences of one-character strings, so that lower() and the *)
(* substring test `kw in long_name` are computed, not assumed.             *)
(* Python's None for a variable name is the empty name <<>> (both are      *)
(* falsy in `not lat_var`); None for a returned result is NoResult; None   *)
(* for a cell value is the cell AbsentCell.                                *)
(***************************************************************************)
EXTENDS Integers, Sequences, FiniteSets, TLC

\* ------------------------------------------------------------------ bounds
\* longest variable catalog of the files of the resolver family
MaxVars == 4
\* largest size of the two horizontal dimensions of the extraction family
MaxDim == 2
\* longest list of input files main is run on
MaxFiles == 2

\* ----------------------------------------------------------------- strings
UpperAlpha == <<"A","B","C","D","E","F","G","H","I","J","K","L","M",
                "N","O","P","Q","R","S","T","U","V","W","X","Y","Z">>

LowerAlpha == <<"a","b","c","d","e","f","g","h","i","j","k","l","m",
                "n","o","p","q","r","s","t","u","v","w","x","y","z">>

\* str.lower() on one character
LowerChar(c) ==
    IF \E k \in 1..Len(UpperAlpha) : UpperAlpha[k] = c
    THEN LowerAlpha[CHOOSE k \in 1..Len(UpperAlpha) : UpperAlpha[k] = c]
    ELSE c

\* str.lower()
Lower(s) == [k \in 1..Len(s) |-> LowerChar(s[k])]

\* Python's `sub in s` on strings
Contains(sub, s) ==
    \E k \in 0..(Len(s) - Len(sub)) : SubSeq(s, k + 1, k + Len(sub)) = sub

\* Python's `x in list`
InList(x, list) == \E k \in 1..Len(list) : list[k] = x

\* the keyword lists of lines 70 and 72
lat_keywords == << <<"l","a","t">>, <<"l","a","t","i","t","u","d","e">> >>

lon_keywords == << <<"l","o","n">>, <<"l","o","n","g","i","t","u","d","e">> >>

\* lines 63-64
lat_names == << <<"l","a","t">>, <<"l","a","t","i","t","u","d","e">>, <<"y">>, <<"Y">>,
                <<"L","A","T">>, <<"L","A","T","I","T","U","D","E">> >>

lon_names == << <<"l","o","n">>, <<"l","o","n","g","i","t","u","d","e">>, <<"x">>, <<"X">>,
                <<"L","O","N">>, <<"L","O","N","G","I","T","U","D","E">> >>

\* [name.lower() for name in names]
LowerAll(names) == [k \in 1..Len(names) |-> Lower(names[k])]

\* any(name in long_name for name in keywords)
AnyIn(keywords, long_name) ==
    \E k \in 1..Len(keywords) : Contains(keywords[k], long_name)

\* ------------------------------------------------------------------- cells
\* A cell of an array: a number, the floating NaN, a sub-array (a cell of an
\* array of rank 3 indexed by two indices), or None.
Num(n) == [k |-> "num", v |-> n, els |-> <<>>]

NaNCell == [k |-> "nan", v |-> 0, els |-> <<>>]

AbsentCell == [k |-> "none", v |-> 0, els |-> <<>>]

Arr(els) == [k |-> "arr", v |-> 0, els |-> els]

\* the value a failed conversion leaves: the conversion raised
Raised == [k |-> "raised", v |-> 0, els |-> <<>>]

\* Float with the bug of converting any non-empty array by its first
\* element instead of raising
FloatFirstElement(val) ==
    CASE val.k = "num" -> val
      [] val.k = "nan" -> val
      [] val.k = "arr" ->
            IF Len(val.els) >= 1 /\ val.els[1].k \in {"num", "nan"}
            THEN val.els[1] ELSE AbsentCell
      [] OTHER -> Raised

\* float(val): a number or NaN converts to itself; an array converts only
\* when it holds exactly one element (that element, converted); anything
\* else raises.
Float(val) ==
    CASE val.k = "num" -> val
      [] val.k = "nan" -> val
      [] val.k = "arr" ->
            IF Len(val.els) = 1 /\ val.els[1].k \in {"num", "nan"}
            THEN val.els[1] ELSE Raised
      [] OTHER -> Raised

\* np.isnan(val) on a float
IsNaN(val) == val.k = "nan"

\* `==` of numpy on a cell and a number: NaN equals nothing
CellEquals(c, n) == c.k = "num" /\ c.v = n

\* ------------------------------------------------------- the input files
\* A file is [filename, readable, dims, variables]: dims is the ordered
\* catalog of dimensions [name, size]; variables is the ordered catalog of
\* variables.  A variable declares its dimensions by name and its
\* attributes (long_name, units, _FillValue, missing_value; has_* tells
\* whether the attribute is declared).  Its stored values are base, base+1,
\* ... in row-major order, except that its first cells hold what head says:
\* "fill" the number fill, "miss" the number missing, "nan" the floating NaN.
Var(name, has_ln, ln, dimensions, base) ==
    [name |-> name, has_long_name |-> has_ln, long_name |-> ln,
     has_units |-> FALSE, units |-> <<>>,
     has_fill |-> FALSE, fill |-> 0, has_missing |-> FALSE, missing |-> 0,
     dimensions |-> dimensions, base |-> base, head |-> <<>>]

Dim(name, size) == [name |-> name, size |-> size]

\* len(dim_obj) of the dimension called name
DimSize(file, name) ==
    LET k == CHOOSE k \in 1..Len(file.dims) : file.dims[k].name = name
    IN  file.dims[k].size

\* var.shape
Shape(file, var) ==
    [k \in 1..Len(var.dimensions) |-> DimSize(file, var.dimensions[k])]

RECURSIVE Product(_)
Product(shape) ==
    IF shape = <<>> THEN 1 ELSE Head(shape) * Product(Tail(shape))

\* the value stored at flat (row-major) position p of a variable
StoredAt(var, p) ==
    IF p + 1 <= Len(var.head) /\ var.head[p + 1] # "def"
    THEN CASE var.head[p + 1] = "fill" -> Num(var.fill)
           [] var.head[p + 1] = "miss" -> Num(var.missing)
           [] OTHER -> NaNCell
    ELSE Num(var.base + p)

\* nc.variables[name][:] with netCDF4's default automatic masking: the
\* array read is a masked array whose mask marks the cells equal to the
\* declared missing_value or the declared _FillValue.
\* An array is [shape, at, mask] with at and mask over 0..size-1, row-major.
ReadVariable(file, var) ==
    LET shape == Shape(file, var)
        n == Product(shape)
    IN  [shape |-> shape,
         at |-> [p \in 0..(n - 1) |-> StoredAt(var, p)],
         mask |-> [p \in 0..(n - 1) |->
                     \/ var.has_missing /\ CellEquals(StoredAt(var, p), var.missing)
                     \/ var.has_fill /\ CellEquals(StoredAt(var, p), var.fill)]]

\* the array before any variable is read
NoArray == [shape |-> <<>>, at |-> <<>>, mask |-> <<>>]

\* nc.variables.keys()
VarNames(file) == [k \in 1..Len(file.variables) |-> file.variables[k].name]

\* `name in nc.variables`
HasVariable(file, name) == InList(name, VarNames(file))

\* nc.variables[name]
Variable(file, name) ==
    file.variables[CHOOSE k \in 1..Len(file.variables) : file.variables[k].name = name]

\* ------------------------------------------------ parse_nc_file: resolver
\* Python's None for lat_var / lon_var
NoName == <<>>

\* one iteration of the loop over nc.variables (lines 67-77): the new
\* [lat, lon] after looking at var
MatchVariable(var, lat, lon) ==
    IF var.has_long_name
    THEN LET long_name == Lower(var.long_name)
         IN  IF AnyIn(lat_keywords, long_name)
             THEN [lat |-> var.name, lon |-> lon]
             ELSE IF AnyIn(lon_keywords, long_name)
                  THEN [lat |-> lat, lon |-> var.name]
                  ELSE [lat |-> lat, lon |-> lon]
    ELSE IF InList(Lower(var.name), LowerAll(lat_names))
         THEN [lat |-> var.name, lon |-> lon]
         ELSE IF InList(Lower(var.name), LowerAll(lon_names))
              THEN [lat |-> lat, lon |-> var.name]
              ELSE [lat |-> lat, lon |-> lon]

\* the loop of lines 66-77 from the k-th variable of the catalog on
RECURSIVE ScanVariablesFrom(_, _, _, _)
ScanVariablesFrom(file, k, lat, lon) ==
    IF k > Len(file.variables)
    THEN [lat |-> lat, lon |-> lon]
    ELSE LET step == MatchVariable(file.variables[k], lat, lon)
         IN  ScanVariablesFrom(file, k + 1, step.lat, step.lon)

\* lines 59-77
ScanVariables(file) == ScanVariablesFrom(file, 1, NoName, NoName)

\* one iteration of the loop over nc.dimensions (lines 82-85)
MatchDimension(dim_name, lat, lon) ==
    IF InList(Lower(dim_name), LowerAll(lat_names))
    THEN [lat |-> dim_name, lon |-> lon]
    ELSE IF InList(Lower(dim_name), LowerAll(lon_names))
         THEN [lat |-> lat, lon |-> dim_name]
         ELSE [lat |-> lat, lon |-> lon]

RECURSIVE ScanDimensionsFrom(_, _, _, _)
ScanDimensionsFrom(file, k, lat, lon) ==
    IF k > Len(file.dims)
    THEN [lat |-> lat, lon |-> lon]
    ELSE LET step == MatchDimension(file.dims[k].name, lat, lon)
         IN  ScanDimensionsFrom(file, k + 1, step.lat, step.lon)

\* AxisUnresolved with `and` written for `or`
AxisUnresolvedBoth(lat, lon) == lat = NoName /\ lon = NoName

\* `not lat_var or not lon_var` (lines 80 and 87)
AxisUnresolved(lat, lon) == lat = NoName \/ lon = NoName

\* lines 79-85
DimensionFallback(file, lat, lon) ==
    IF AxisUnresolved(lat, lon)
    THEN ScanDimensionsFrom(file, 1, lat, lon)
    ELSE [lat |-> lat, lon |-> lon]

\* lines 96-101: the names of the candidate measurement variables, in
\* catalog order, from the k-th variable on
RECURSIVE DataVarsFrom(_, _, _, _)
DataVarsFrom(file, k, lat, lon) ==
    IF k > Len(file.variables)
    THEN <<>>
    ELSE LET var == file.variables[k]
             rest == DataVarsFrom(file, k + 1, lat, lon)
         IN  IF var.name # lat /\ var.name # lon /\ Len(var.dimensions) >= 2
             THEN <<var.name>> \o rest
             ELSE rest

DataVars(file, lat, lon) == DataVarsFrom(file, 1, lat, lon)

\* FirstDataVar taking the last candidate
LastDataVar(data_vars) == data_vars[Len(data_vars)]

\* line 108
FirstDataVar(data_vars) == data_vars[1]

\* -------------------------------- parse_nc_file: normaliser, grid, points
\* np.ma.masked_equal(data, value): the mask grows by the cells equal to value
MaskedEqual(arr, value) ==
    [arr EXCEPT !.mask = [p \in DOMAIN arr.at |->
                            arr.mask[p] \/ CellEquals(arr.at[p], value)]]

\* lines 113-116
MaskMissing(var, arr) ==
    IF var.has_fill
    THEN MaskedEqual(arr, var.fill)
    ELSE IF var.has_missing
         THEN MaskedEqual(arr, var.missing)
         ELSE arr

\* line 119: np.where(np.ma.getmask(data), None, data), a plain array
WhereMaskNone(arr) ==
    [shape |-> arr.shape,
     at |-> [p \in DOMAIN arr.at |-> IF arr.mask[p] THEN AbsentCell ELSE arr.at[p]],
     mask |-> [p \in DOMAIN arr.at |-> FALSE]]

\* np.meshgrid(lons, lats) of two 1-D arrays (line 124): the pair
\* [lon_grid, lat_grid], both of shape (len(lats), len(lons))
MeshGrid(lon_arr, lat_arr) ==
    LET rows == lat_arr.shape[1]
        cols == lon_arr.shape[1]
        cells == 0..(rows * cols - 1)
    IN  [lon_grid |-> [shape |-> <<rows, cols>>,
                       at |-> [p \in cells |-> lon_arr.at[p % cols]],
                       mask |-> [p \in cells |-> FALSE]],
         lat_grid |-> [shape |-> <<rows, cols>>,
                       at |-> [p \in cells |-> lat_arr.at[p \div cols]],
                       mask |-> [p \in cells |-> FALSE]]]

\* lines 122-128
MakeGrids(lat_arr, lon_arr) ==
    IF Len(lat_arr.shape) = 1 /\ Len(lon_arr.shape) = 1
    THEN MeshGrid(lon_arr, lat_arr)
    ELSE [lon_grid |-> lon_arr, lat_grid |-> lat_arr]

\* whether arr[a, b] is a valid index expression (no IndexError): the array
\* has at least two dimensions and both indices are inside them
CanIndex2(arr, a, b) ==
    /\ Len(arr.shape) >= 2
    /\ a < arr.shape[1]
    /\ b < arr.shape[2]

\* arr[a, b]: the cell of a 2-D array, the sub-array of a 3-D one
Index2(arr, a, b) ==
    IF Len(arr.shape) = 2
    THEN arr.at[a * arr.shape[2] + b]
    ELSE LET depth == Product(SubSeq(arr.shape, 3, Len(arr.shape)))
         IN  Arr([k \in 1..depth |-> arr.at[(a * arr.shape[2] + b) * depth + (k - 1)]])

\* line 134: the guard of the loop body
CellInData(arr, a, b) == arr.shape[1] > a /\ arr.shape[2] > b

\* ReadIndex without the transposition
ReadIndexUntransposed(arr, a, b) == <<a, b>>

\* line 140: the index pair at which the measurement is read for the grid
\* cell (a, b)
ReadIndex(arr, a, b) ==
    IF b < arr.shape[1] /\ a < arr.shape[2] THEN <<b, a>> ELSE <<a, b>>

\* lines 141-142: None stays None, anything else goes through float()
ToValue(val) == IF val.k # "none" THEN Float(val) ELSE val

\* Filtered testing for None only
FilteredAbsentOnly(filter, val) == filter /\ val.k = "none"

\* line 145: the point is skipped
Filtered(filter, val) == filter /\ (val.k = "none" \/ IsNaN(val))

\* lines 148-152
Point(lat_val, lon_val, val) ==
    [latitude |-> lat_val, longitude |-> lon_val, value |-> val]

\* np.min / np.max of an array of numbers
RECURSIVE MinOver(_, _)
MinOver(arr, n) ==
    IF n = 1 THEN arr.at[0].v
    ELSE LET m == MinOver(arr, n - 1)
         IN  IF arr.at[n - 1].v < m THEN arr.at[n - 1].v ELSE m

RECURSIVE MaxOver(_, _)
MaxOver(arr, n) ==
    IF n = 1 THEN arr.at[0].v
    ELSE LET m == MaxOver(arr, n - 1)
         IN  IF arr.at[n - 1].v > m THEN arr.at[n - 1].v ELSE m

\* [float(np.min(a)), float(np.max(a))] (lines 160-161); np.min raises on
\* an empty array, which CanRange excludes
CanRange(arr) == Product(arr.shape) > 0

Range(arr) == <<MinOver(arr, Product(arr.shape)), MaxOver(arr, Product(arr.shape))>>

\* lines 40-49: file_info (the global attributes play no part and are left out)
FileInfo(file) ==
    [filename |-> file.filename,
     variables |-> VarNames(file),
     dimensions |-> file.dims]

\* lines 155-169
Result(file, lat, lon, lat_arr, lon_arr, name, points) ==
    LET var == Variable(file, name)
    IN  [file_info |-> FileInfo(file),
         coordinate_system |->
             [latitude_variable |-> lat,
              longitude_variable |-> lon,
              latitude_range |-> Range(lat_arr),
              longitude_range |-> Range(lon_arr)],
         data_variable |->
             [name |-> name,
              units |-> IF var.has_units THEN var.units
                        ELSE <<"u","n","k","n","o","w","n">>,
              long_name |-> IF var.has_long_name THEN var.long_name ELSE name],
         data_points |-> points]

\* what the loop body of lines 134-153 does for the grid cell (a, b):
\* kind "raise" (an exception leaves the loop), "skip" (no point) or "emit"
CellOutcome(filter, latg, long, arr, a, b) ==
    LET nothing == Point(Raised, Raised, Raised)
    IN
    IF ~CellInData(arr, a, b)
    THEN [kind |-> "skip", point |-> nothing]
    ELSE IF ~CanIndex2(latg, a, b) \/ ~CanIndex2(long, a, b)
    THEN [kind |-> "raise", point |-> nothing]
    ELSE
    LET lat_val == Float(Index2(latg, a, b))
        lon_val == Float(Index2(long, a, b))
        at == ReadIndex(arr, a, b)
        val == ToValue(Index2(arr, at[1], at[2]))
    IN  IF lat_val = Raised \/ lon_val = Raised \/ val = Raised
        THEN [kind |-> "raise", point |-> nothing]
        ELSE IF Filtered(filter, val)
             THEN [kind |-> "skip", point |-> nothing]
             ELSE [kind |-> "emit", point |-> Point(lat_val, lon_val, val)]

\* ------------------------------------------------------------------ main
\* os.path.splitext(os.path.basename(name))[0]: the name up to its last
\* dot (a name from glob("*.nc") has no directory part)
RECURSIVE LastDot(_, _)
LastDot(name, k) ==
    IF k = 0 THEN 0
    ELSE IF name[k] = "." THEN k ELSE LastDot(name, k - 1)

SplitExt(name) ==
    LET d == LastDot(name, Len(name))
    IN  IF d <= 1 THEN name ELSE SubSeq(name, 1, d - 1)

\* f"{nc_filename}_all.json" (line 222)
AllName(nc_file) ==
    SplitExt(nc_file.filename) \o <<"_","a","l","l",".","j","s","o","n">>

\* f"{nc_filename}_filtered.json" (line 231)
FilteredName(nc_file) ==
    SplitExt(nc_file.filename)
        \o <<"_","f","i","l","t","e","r","e","d",".","j","s","o","n">>

\* open(name, 'w') and json.dump: the file called name now holds content
WriteArtifact(files, name, content) ==
    {f \in files : f.name # name} \cup {[name |-> name, content |-> content]}

\* sum(len(result['data_points']) for result in results) (lines 244-245)
RECURSIVE TotalPoints(_)
TotalPoints(results) ==
    IF results = <<>> THEN 0
    ELSE Len(Head(results).data_points) + TotalPoints(Tail(results))

\* ------------------------------------------------------ the sets of files
s_latitude_ln == <<"L","a","t","i","t","u","d","e"," ","o","f"," ",
                   "g","r","i","d"," ","c","e","l","l">>

s_longitude_ln == <<"L","o","n","g","i","t","u","d","e"," ","o","f"," ",
                    "g","r","i","d"," ","c","e","l","l">>

s_index_ln == <<"e","a","s","t","-","w","e","s","t"," ",
                "g","r","i","d"," ","i","n","d","e","x">>

s_f_nc == <<"f",".","n","c">>

File(filename, readable, dims, variables) ==
    [filename |-> filename, readable |-> readable, dims |-> dims,
     variables |-> variables]

\* The resolver family: every catalog of at most MaxVars variables, in
\* every order, drawn from seven variables over two dimensions called a and
\* b: plain "y" and "x", "phi" and "lam" with latitude / longitude long
\* names, an "x" with the long name "east-west grid index", and two
\* measurement variables of rank 2.
ResolverPool(a, b) ==
    << Var(<<"y">>, FALSE, <<>>, <<a>>, 1),
       Var(<<"p","h","i">>, TRUE, s_latitude_ln, <<a>>, 1),
       Var(<<"x">>, FALSE, <<>>, <<b>>, 5),
       Var(<<"l","a","m">>, TRUE, s_longitude_ln, <<b>>, 5),
       Var(<<"x">>, TRUE, s_index_ln, <<b>>, 5),
       [Var(<<"t","2">>, FALSE, <<>>, <<a, b>>, 1)
            EXCEPT !.has_units = TRUE, !.units = <<"K">>],
       Var(<<"p","r">>, TRUE, <<"r","a","i","n">>, <<b, a>>, 1) >>

\* the names of the two dimensions of a file of the resolver family
DimSchemes ==
    { << <<"r","o","w">>, <<"c","o","l">> >>,
      << <<"y">>, <<"x">> >>,
      << <<"L","A","T">>, <<"l","o","n">> >> }

Picks ==
    UNION { { q \in [1..n -> 1..7] :
                /\ \A k1, k2 \in 1..n : k1 # k2 => q[k1] # q[k2]
                /\ ~(\E k1, k2 \in 1..n : q[k1] = 3 /\ q[k2] = 5) }
            : n \in 0..MaxVars }

ResolverFiles ==
    { File(s_f_nc, TRUE,
           <<Dim(d[1], 1), Dim(d[2], 2)>>,
           [k \in 1..Len(q) |-> ResolverPool(d[1], d[2])[q[k]]])
      : q \in Picks, d \in DimSchemes }

\* The extraction family: latitude "lat", longitude "lon" and one
\* measurement "v" over the dimensions a and b (sizes 0..MaxDim) and a
\* record dimension t.  The axes are 1-D or 2-D; the measurement declares
\* _FillValue 90 and / or missing_value 91 or neither, and its first two
\* cells hold the choices of head.
d_a == <<"a">>

d_b == <<"b">>

d_t == <<"t">>

\* the measurement's dimensions with the size of t: over (a, b), over
\* (b, a), and over (t, a, b) with no record or two records
Layouts ==
    { [vd |-> <<d_a, d_b>>, ts |-> 2],
      [vd |-> <<d_b, d_a>>, ts |-> 2],
      [vd |-> <<d_t, d_a, d_b>>, ts |-> 0],
      [vd |-> <<d_t, d_a, d_b>>, ts |-> 2] }

ExtractFiles ==
    { File(s_f_nc, TRUE,
           <<Dim(d_t, lay.ts), Dim(d_a, na), Dim(d_b, nb)>>,
           << Var(<<"l","a","t">>, FALSE, <<>>, latd, 1),
              Var(<<"l","o","n">>, FALSE, <<>>, lond, 5),
              [Var(<<"v">>, FALSE, <<>>, lay.vd, 1)
                  EXCEPT !.has_fill = hf, !.fill = 90,
                         !.has_missing = hm, !.missing = 91,
                         !.head = <<c0, c1>>] >>)
      : lay \in Layouts, na \in 0..MaxDim, nb \in 0..MaxDim,
        latd \in {<<d_a>>, <<d_a, d_b>>},
        lond \in {<<d_b>>, <<d_a, d_b>>},
        hf \in BOOLEAN, hm \in BOOLEAN,
        c0 \in {"def", "fill", "miss", "nan"}, c1 \in {"def", "nan"} }

\* The batch family: four small files under their own names.  a.nc and
\* c.nc parse, b.nc has no latitude, d.nc cannot be opened.
BatchFiles ==
    { File(<<"a",".","n","c">>, TRUE,
           <<Dim(d_a, 1), Dim(d_b, 1)>>,
           << Var(<<"l","a","t">>, FALSE, <<>>, <<d_a>>, 1),
              Var(<<"l","o","n">>, FALSE, <<>>, <<d_b>>, 5),
              Var(<<"v">>, FALSE, <<>>, <<d_a, d_b>>, 1) >>),
      File(<<"b",".","n","c">>, TRUE,
           <<Dim(d_a, 1), Dim(d_b, 1)>>,
           << Var(<<"l","o","n">>, FALSE, <<>>, <<d_b>>, 5),
              Var(<<"v">>, FALSE, <<>>, <<d_a, d_b>>, 2) >>),
      File(<<"c",".","n","c">>, TRUE,
           <<Dim(d_a, 1), Dim(d_b, 1)>>,
           << Var(<<"l","a","t">>, FALSE, <<>>, <<d_a>>, 3),
              Var(<<"l","o","n">>, FALSE, <<>>, <<d_b>>, 7),
              [Var(<<"v">>, FALSE, <<>>, <<d_a, d_b>>, 3)
                  EXCEPT !.has_fill = TRUE, !.fill = 90, !.head = <<"fill">>] >>),
      File(<<"d",".","n","c">>, FALSE, <<>>, <<>>) }

\* glob.glob("*.nc"): the lists of files main can find
BatchLists ==
    UNION { { q \in [1..n -> BatchFiles] :
                \A k1, k2 \in 1..n : k1 # k2 => q[k1].filename # q[k2].filename }
            : n \in 0..MaxFiles }

InputLists ==
    BatchLists \cup { <<f>> : f \in ResolverFiles \cup ExtractFiles }

\* -------------------------------------------------------------- the state
VARIABLES
    nc_files,          \* main: the list glob returned
    mpc,               \* main: where main is
    fidx,              \* main: the position of nc_file in the first loop
    all_results,       \* main
    filtered_results,  \* main
    widx,              \* main: the position of the second loop (i + 1)
    result,            \* main: what the call of line 201 returned
    filtered_result,   \* main: what the call of line 207 returned
    artifacts,         \* the JSON files written so far: {[name, content]}
    pc,                \* parse_nc_file: where the call is
    filter_nan,        \* parse_nc_file: the argument
    handle_open,       \* whether the Dataset of the call is open
    lat_var, lon_var, lats, lons, data_var_name, data,
    lat_grid, lon_grid, i, j, data_points,
    ret,               \* what the last call returned: <<>> is None, <<r>> is r
    msg                \* what the last call printed: "", "warn_axes", "warn_data", "error"

main_vars == <<nc_files, mpc, fidx, all_results, filtered_results, widx,
               result, filtered_result, artifacts>>

local_vars == <<lat_var, lon_var, lats, lons, data_var_name, data,
                lat_grid, lon_grid, i, j, data_points>>

vars == <<main_vars, pc, filter_nan, handle_open, local_vars, ret, msg>>

NoResult == <<>>

\* the file parse_nc_file is called on
nc_file == nc_files[fidx]

Init ==
    /\ nc_files \in InputLists
    /\ mpc = "start"
    /\ fidx = 1
    /\ all_results = <<>>
    /\ filtered_results = <<>>
    /\ widx = 1
    /\ result = NoResult
    /\ filtered_result = NoResult
    /\ artifacts = {}
    /\ pc = "idle"
    /\ filter_nan = FALSE
    /\ handle_open = FALSE
    /\ lat_var = NoName
    /\ lon_var = NoName
    /\ lats = NoArray
    /\ lons = NoArray
    /\ data_var_name = NoName
    /\ data = NoArray
    /\ lat_grid = NoArray
    /\ lon_grid = NoArray
    /\ i = 0
    /\ j = 0
    /\ data_points = <<>>
    /\ ret = NoResult
    /\ msg = ""

\* ------------------------------------------------- parse_nc_file: actions
\* Return that leaves the Dataset open
ReturnKeepsHandle(value, printed) ==
    /\ ret' = value
    /\ msg' = printed
    /\ pc' = "returned"
    /\ handle_open' = handle_open
    /\ UNCHANGED local_vars

\* `return value` or an exception caught at lines 173-175: leaving the
\* `with` block closes the Dataset.  The locals keep their last values
\* until the next call starts with fresh ones.
Return(value, printed) ==
    /\ ret' = value
    /\ msg' = printed
    /\ pc' = "returned"
    /\ handle_open' = FALSE
    /\ UNCHANGED local_vars

\* the locals of a call that has just started
FreshLocals ==
    /\ lat_var' = NoName
    /\ lon_var' = NoName
    /\ lats' = NoArray
    /\ lons' = NoArray
    /\ data_var_name' = NoName
    /\ data' = NoArray
    /\ lat_grid' = NoArray
    /\ lon_grid' = NoArray
    /\ i' = 0
    /\ j' = 0
    /\ data_points' = <<>>

\* lines 201 / 207 and 37-56: main calls parse_nc_file(nc_file, filter_nan),
\* which opens the Dataset; a file that cannot be opened raises
Open ==
    /\ mpc \in {"call_all", "call_filtered"}
    /\ pc = "idle"
    /\ filter_nan' = (mpc = "call_filtered")
    /\ FreshLocals
    /\ IF nc_file.readable
       THEN /\ handle_open' = TRUE
            /\ pc' = "scan"
            /\ ret' = NoResult
            /\ msg' = ""
       ELSE /\ handle_open' = FALSE
            /\ pc' = "returned"
            /\ ret' = NoResult
            /\ msg' = "error"
    /\ UNCHANGED main_vars

\* lines 59-77
ResolveVariables ==
    /\ pc = "scan"
    /\ LET found == ScanVariables(nc_file)
       IN  /\ lat_var' = found.lat
           /\ lon_var' = found.lon
    /\ pc' = "dims"
    /\ UNCHANGED <<main_vars, filter_nan, handle_open, lats, lons, data_var_name,
                   data, lat_grid, lon_grid, i, j, data_points, ret, msg>>

\* lines 79-85
ResolveDimensions ==
    /\ pc = "dims"
    /\ LET found == DimensionFallback(nc_file, lat_var, lon_var)
       IN  /\ lat_var' = found.lat
           /\ lon_var' = found.lon
    /\ pc' = "axes"
    /\ UNCHANGED <<main_vars, filter_nan, handle_open, lats, lons, data_var_name,
                   data, lat_grid, lon_grid, i, j, data_points, ret, msg>>

\* lines 87-93: no axis, no result; nc.variables[lat_var] raises KeyError
\* when lat_var names no variable
ReadAxes ==
    /\ pc = "axes"
    /\ IF AxisUnresolved(lat_var, lon_var)
       THEN Return(NoResult, "warn_axes")
       ELSE IF ~HasVariable(nc_file, lat_var) \/ ~HasVariable(nc_file, lon_var)
       THEN Return(NoResult, "error")
       ELSE /\ lats' = ReadVariable(nc_file, Variable(nc_file, lat_var))
            /\ lons' = ReadVariable(nc_file, Variable(nc_file, lon_var))
            /\ pc' = "select"
            /\ UNCHANGED <<handle_open, lat_var, lon_var, data_var_name, data,
                           lat_grid, lon_grid, i, j, data_points, ret, msg>>
    /\ UNCHANGED <<main_vars, filter_nan>>

\* lines 95-110
SelectData ==
    /\ pc = "select"
    /\ LET data_vars == DataVars(nc_file, lat_var, lon_var)
       IN  IF data_vars = <<>>
           THEN Return(NoResult, "warn_data")
           ELSE /\ data_var_name' = FirstDataVar(data_vars)
                /\ data' = ReadVariable(nc_file,
                                        Variable(nc_file, FirstDataVar(data_vars)))
                /\ pc' = "normalize"
                /\ UNCHANGED <<handle_open, lat_var, lon_var, lats, lons,
                               lat_grid, lon_grid, i, j, data_points, ret, msg>>
    /\ UNCHANGED <<main_vars, filter_nan>>

\* lines 112-119
Normalize ==
    /\ pc = "normalize"
    /\ data' = WhereMaskNone(MaskMissing(Variable(nc_file, data_var_name), data))
    /\ pc' = "grid"
    /\ UNCHANGED <<main_vars, filter_nan, handle_open, lat_var, lon_var, lats, lons,
                   data_var_name, lat_grid, lon_grid, i, j, data_points, ret, msg>>

\* lines 121-131
Materialize ==
    /\ pc = "grid"
    /\ LET grids == MakeGrids(lats, lons)
       IN  /\ lat_grid' = grids.lat_grid
           /\ lon_grid' = grids.lon_grid
    /\ data_points' = <<>>
    /\ i' = 0
    /\ j' = 0
    /\ pc' = "loop"
    /\ UNCHANGED <<main_vars, filter_nan, handle_open, lat_var, lon_var, lats, lons,
                   data_var_name, data, ret, msg>>

\* lines 132-153, one step of the two nested loops at position (i, j):
\* the outer loop ends, lat_grid.shape[1] raises for a 1-D lat_grid, the
\* inner loop ends, or the body runs for the cell (i, j)
Extract ==
    /\ pc = "loop"
    /\ IF i >= lat_grid.shape[1]
       THEN /\ pc' = "assemble"
            /\ UNCHANGED <<handle_open, local_vars, ret, msg>>
       ELSE IF Len(lat_grid.shape) < 2
       THEN Return(NoResult, "error")
       ELSE IF j >= lat_grid.shape[2]
       THEN /\ i' = i + 1
            /\ j' = 0
            /\ UNCHANGED <<pc, handle_open, lat_var, lon_var, lats, lons, data_var_name,
                           data, lat_grid, lon_grid, data_points, ret, msg>>
       ELSE LET out == CellOutcome(filter_nan, lat_grid, lon_grid, data, i, j)
            IN  IF out.kind = "raise"
                THEN Return(NoResult, "error")
                ELSE /\ data_points' = IF out.kind = "emit"
                                       THEN Append(data_points, out.point)
                                       ELSE data_points
                     /\ j' = j + 1
                     /\ UNCHANGED <<pc, handle_open, lat_var, lon_var, lats, lons,
                                    data_var_name, data, lat_grid, lon_grid, i, ret, msg>>
    /\ UNCHANGED <<main_vars, filter_nan>>

\* lines 155-171: np.min of an empty axis raises
Assemble ==
    /\ pc = "assemble"
    /\ IF CanRange(lats) /\ CanRange(lons)
       THEN Return(<<Result(nc_file, lat_var, lon_var, lats, lons,
                            data_var_name, data_points)>>, "")
       ELSE Return(NoResult, "error")
    /\ UNCHANGED <<main_vars, filter_nan>>

parse_nc_file ==
    \/ Open
    \/ ResolveVariables
    \/ ResolveDimensions
    \/ ReadAxes
    \/ SelectData
    \/ Normalize
    \/ Materialize
    \/ Extract
    \/ Assemble

\* ---------------------------------------------------------- main: actions
\* lines 182-198
Start ==
    /\ mpc = "start"
    /\ mpc' = IF nc_files = <<>> THEN "done" ELSE "call_all"
    /\ UNCHANGED <<nc_files, fidx, all_results, filtered_results, widx, artifacts,
                   result, filtered_result,
                   pc, filter_nan, handle_open, local_vars, ret, msg>>

\* lines 201-204
GotAll ==
    /\ mpc = "call_all"
    /\ pc = "returned"
    /\ result' = ret
    /\ all_results' = IF ret # NoResult THEN Append(all_results, ret[1])
                      ELSE all_results
    /\ mpc' = "call_filtered"
    /\ pc' = "idle"
    /\ UNCHANGED <<nc_files, fidx, filtered_results, widx, artifacts, filtered_result,
                   filter_nan, handle_open, local_vars, ret, msg>>

\* lines 207-215: the second call returned; the next file, or past the loop
GotFiltered ==
    /\ mpc = "call_filtered"
    /\ pc = "returned"
    /\ filtered_result' = ret
    /\ filtered_results' = IF ret # NoResult THEN Append(filtered_results, ret[1])
                           ELSE filtered_results
    /\ pc' = "idle"
    /\ IF fidx < Len(nc_files)
       THEN /\ fidx' = fidx + 1
            /\ mpc' = "call_all"
       ELSE /\ fidx' = fidx
            /\ mpc' = IF all_results # <<>> \/ filtered_results' # <<>>
                      THEN "write" ELSE "done"
    /\ UNCHANGED <<nc_files, all_results, widx, artifacts, result,
                   filter_nan, handle_open, local_vars, ret, msg>>

\* lines 217-241, one iteration of the second loop, for nc_files[widx]: it
\* writes the widx-th entry of each result list under the name of the
\* widx-th file; the ratio of line 240 divides by the number of points of
\* the widx-th unfiltered result, and an empty one raises ZeroDivisionError
WriteOutputs ==
    /\ mpc = "write"
    /\ widx <= Len(nc_files)
    /\ LET has_all == widx <= Len(all_results)
           has_filtered == widx <= Len(filtered_results)
           after_all == IF has_all
                        THEN WriteArtifact(artifacts, AllName(nc_files[widx]),
                                           <<all_results[widx]>>)
                        ELSE artifacts
           after_filtered == IF has_filtered
                             THEN WriteArtifact(after_all, FilteredName(nc_files[widx]),
                                                <<filtered_results[widx]>>)
                             ELSE after_all
       IN  /\ artifacts' = after_filtered
           /\ IF has_all /\ has_filtered /\ Len(all_results[widx].data_points) = 0
              THEN /\ mpc' = "crashed"
                   /\ widx' = widx
              ELSE /\ mpc' = "write"
                   /\ widx' = widx + 1
    /\ UNCHANGED <<nc_files, fidx, all_results, filtered_results,
                   result, filtered_result,
                   pc, filter_nan, handle_open, local_vars, ret, msg>>

\* lines 243-259: the totals; the ratio of line 248 divides by the total
\* number of unfiltered points
Statistics ==
    /\ mpc = "write"
    /\ widx > Len(nc_files)
    /\ mpc' = IF /\ all_results # <<>>
                 /\ filtered_results # <<>>
                 /\ TotalPoints(all_results) = 0
              THEN "crashed" ELSE "done"
    /\ UNCHANGED <<nc_files, fidx, all_results, filtered_results, widx, artifacts,
                   result, filtered_result,
                   pc, filter_nan, handle_open, local_vars, ret, msg>>

main == Start \/ GotAll \/ GotFiltered \/ WriteOutputs \/ Statistics

Next == parse_nc_file \/ main

Spec == Init /\ [][Next]_vars

\* =================================================================== claims
\* a call of parse_nc_file has just returned: ret and msg are its outcome,
\* filter_nan its argument, the locals what it had computed
Returned == pc = "returned"

\* the second call for nc_file has just returned (ret), the first call's
\* result for the same file is main's result
BothReturned == mpc = "call_filtered" /\ pc = "returned"

\* C1 (as claimed): whenever parse_nc_file with filter_nan=False returns a
\* result, its data_points list has exactly R*C entries, R and C being the
\* first two dimension sizes of lat_grid, whatever the measurement's shape.
C1_LengthIsGridSize ==
    (Returned /\ ~filter_nan /\ ret # NoResult)
        => Len(ret[1].data_points) = lat_grid.shape[1] * lat_grid.shape[2]

ValuePresent(pt) == pt.value # AbsentCell

ValueNeitherAbsentNorNaN(pt) == pt.value # AbsentCell /\ pt.value # NaNCell

\* C2 (as claimed): the filtered run returns the unfiltered run's points
\* minus exactly the points whose value is None, order preserved; a NaN
\* value is kept.
C2_FilteredDropsOnlyAbsent ==
    BothReturned =>
        /\ (ret = NoResult) <=> (result = NoResult)
        /\ ret # NoResult =>
              ret[1].data_points = SelectSeq(result[1].data_points, ValuePresent)

\* C2 (amended): the filtered run returns the unfiltered run's points minus
\* exactly the points whose value is None or the floating NaN, order
\* preserved; both runs fail or both succeed.
C2_FilteredDropsAbsentAndNaN ==
    BothReturned =>
        /\ (ret = NoResult) <=> (result = NoResult)
        /\ ret # NoResult =>
              ret[1].data_points =
                  SelectSeq(result[1].data_points, ValueNeitherAbsentNorNaN)

\* C2 witness: both runs returned a result, the unfiltered one holds a None
\* point, a NaN point and a numeric point, the filtered one is shorter
C2_Witness ==
    /\ BothReturned
    /\ ret # NoResult
    /\ \E k \in 1..Len(result[1].data_points) :
          result[1].data_points[k].value = AbsentCell
    /\ \E k \in 1..Len(result[1].data_points) :
          result[1].data_points[k].value = NaNCell
    /\ Len(ret[1].data_points) >= 1
    /\ Len(ret[1].data_points) + 2 <= Len(result[1].data_points)

\* the end-to-end example: lats=[1,2], lons=[5,6], the measurement
\* [[NA,2],[3,4]] over (a, b), NA being the declared _FillValue
ExampleFile ==
    File(s_f_nc, TRUE,
         <<Dim(d_t, 2), Dim(d_a, 2), Dim(d_b, 2)>>,
         << Var(<<"l","a","t">>, FALSE, <<>>, <<d_a>>, 1),
            Var(<<"l","o","n">>, FALSE, <<>>, <<d_b>>, 5),
            [Var(<<"v">>, FALSE, <<>>, <<d_a, d_b>>, 1)
                EXCEPT !.has_fill = TRUE, !.fill = 90,
                       !.has_missing = FALSE, !.missing = 91,
                       !.head = <<"fill", "def">>] >>)

ExampleAll ==
    << Point(Num(1), Num(5), AbsentCell), Point(Num(1), Num(6), Num(3)),
       Point(Num(2), Num(5), Num(2)), Point(Num(2), Num(6), Num(4)) >>

ExampleFiltered ==
    << Point(Num(1), Num(6), Num(3)),
       Point(Num(2), Num(5), Num(2)), Point(Num(2), Num(6), Num(4)) >>

\* C3: every point parse_nc_file emits for the grid cell (i, j) carries
\* lat_grid[i][j], lon_grid[i][j] and the measurement cell at (j, i) when
\* (j, i) lies inside the measurement's first two dimensions, the cell at
\* (i, j) otherwise (stated for a measurement of rank 2); and the example
\* file yields its 4 points unfiltered, with (1, 5) absent and (1, 6)
\* valued 3, and exactly its 3 non-null points filtered.
C3_TransposedRead ==
    [][ /\ (pc = "loop" /\ data_points' # data_points) =>
              LET pt == data_points'[Len(data_points')]
                  cols == data.shape[2]
                  cell == IF j < data.shape[1] /\ i < data.shape[2]
                          THEN data.at[j * cols + i]
                          ELSE data.at[i * cols + j]
              IN  /\ data_points' = Append(data_points, pt)
                  /\ pt.latitude = lat_grid.at[i * lat_grid.shape[2] + j]
                  /\ pt.longitude = lon_grid.at[i * lon_grid.shape[2] + j]
                  /\ Len(data.shape) = 2 => pt.value = cell
        /\ (pc = "assemble" /\ pc' = "returned" /\ nc_file = ExampleFile) =>
              /\ ret' # NoResult
              /\ ret'[1].data_points =
                    IF filter_nan THEN ExampleFiltered ELSE ExampleAll
      ]_vars

\* C3 witness: both runs on the example file have returned, with 4 and 3
\* points
C3_Witness ==
    /\ BothReturned
    /\ nc_file = ExampleFile
    /\ result # NoResult /\ Len(result[1].data_points) = 4
    /\ ret # NoResult /\ Len(ret[1].data_points) = 3

\* the variable's long_name holds a latitude (longitude) keyword
LatLongName(var) == var.has_long_name /\ AnyIn(lat_keywords, Lower(var.long_name))

LonLongName(var) == var.has_long_name /\ AnyIn(lon_keywords, Lower(var.long_name))

\* the variable's own name is one of the aliases, whatever its case
LatAliasName(var) == Lower(var.name) \in {<<"l","a","t">>, <<"l","a","t","i","t","u","d","e">>, <<"y">>}

LonAliasName(var) == Lower(var.name) \in {<<"l","o","n">>, <<"l","o","n","g","i","t","u","d","e">>, <<"x">>}

Catalog == nc_file.variables

\* C4 (as claimed): after the variable passes, when the catalog holds a
\* variable with a latitude long_name and a variable without long_name
\* named "y", lat_var is the long_name variable, wherever "y" stands in the
\* catalog; likewise for longitude and "x".
C4_LongNameBeatsPlainName ==
    pc = "dims" =>
        /\ ( /\ \E k \in 1..Len(Catalog) : LatLongName(Catalog[k])
             /\ \E k \in 1..Len(Catalog) :
                   ~Catalog[k].has_long_name /\ Catalog[k].name = <<"y">> )
           => \E k \in 1..Len(Catalog) :
                 LatLongName(Catalog[k]) /\ lat_var = Catalog[k].name
        /\ ( /\ \E k \in 1..Len(Catalog) : LonLongName(Catalog[k])
             /\ \E k \in 1..Len(Catalog) :
                   ~Catalog[k].has_long_name /\ Catalog[k].name = <<"x">> )
           => \E k \in 1..Len(Catalog) :
                 LonLongName(Catalog[k]) /\ lon_var = Catalog[k].name

\* C5 (as claimed): the dimension-name pass leaves an axis that the
\* variable passes resolved as it is; it changes only an unresolved axis.
C5_FallbackKeepsResolvedAxis ==
    [][ pc = "dims" =>
            /\ lat_var # NoName => lat_var' = lat_var
            /\ lon_var # NoName => lon_var' = lon_var ]_vars

\* C6 (as claimed): after the variable passes, when no variable's long_name
\* holds the axis's keywords and some variable is named by an alias of the
\* axis, the axis is resolved to an alias-named variable, whether or not
\* that variable carries a long_name.
C6_AliasNameResolves ==
    pc = "dims" =>
        /\ ( /\ \A k \in 1..Len(Catalog) : ~LatLongName(Catalog[k])
             /\ \E k \in 1..Len(Catalog) : LatAliasName(Catalog[k]) )
           => \E k \in 1..Len(Catalog) :
                 LatAliasName(Catalog[k]) /\ lat_var = Catalog[k].name
        /\ ( /\ \A k \in 1..Len(Catalog) : ~LonLongName(Catalog[k])
             /\ \E k \in 1..Len(Catalog) : LonAliasName(Catalog[k]) )
           => \E k \in 1..Len(Catalog) :
                 LonAliasName(Catalog[k]) /\ lon_var = Catalog[k].name

\* a name that is the name of a variable of the catalog
NamesVariable(name) == \E k \in 1..Len(Catalog) : Catalog[k].name = name

\* C7: a call that, after the three passes, has latitude or longitude
\* unresolved prints the warning and returns None with no data point; a
\* call whose axis is resolved to a name that no variable carries returns
\* None through the exception handler with no data point; and no call gets
\* past the axis check (to select, normalise, walk the grid or assemble)
\* with such axes, whatever filter_nan is.
C7_UnresolvedAxisFails ==
    /\ (Returned /\ nc_file.readable /\ (lat_var = NoName \/ lon_var = NoName))
           => ret = NoResult /\ msg = "warn_axes" /\ data_points = <<>>
    /\ (Returned /\ lat_var # NoName /\ lon_var # NoName
          /\ (~NamesVariable(lat_var) \/ ~NamesVariable(lon_var)))
           => ret = NoResult /\ msg = "error" /\ data_points = <<>>
    /\ pc \in {"select", "normalize", "grid", "loop", "assemble"}
           => NamesVariable(lat_var) /\ NamesVariable(lon_var)

\* C7 witness: a filtered call on a file that has a measurement variable and
\* a latitude but no longitude has returned None
C7_Witness ==
    /\ Returned
    /\ filter_nan
    /\ lat_var # NoName
    /\ lon_var = NoName
    /\ \E k \in 1..Len(Catalog) : Len(Catalog[k].dimensions) >= 2
    /\ ret = NoResult

\* the k-th variable is neither axis and has at least two dimensions
Candidate(k) ==
    /\ Catalog[k].name # lat_var
    /\ Catalog[k].name # lon_var
    /\ Len(Catalog[k].dimensions) >= 2

FirstCandidate(k) == Candidate(k) /\ \A m \in 1..(k - 1) : ~Candidate(m)

\* C8: the measurement variable in use, and the data_variable.name of a
\* returned result, is the first variable in catalog order that is neither
\* resolved axis and has rank >= 2; when the axes are resolved to variables
\* and no such variable exists, the call returns None.
C8_FirstCandidateIsMeasurement ==
    /\ pc \in {"normalize", "grid", "loop", "assemble"}
           => \E k \in 1..Len(Catalog) :
                 FirstCandidate(k) /\ data_var_name = Catalog[k].name
    /\ (Returned /\ ret # NoResult)
           => \E k \in 1..Len(Catalog) :
                 FirstCandidate(k) /\ ret[1].data_variable.name = Catalog[k].name
    /\ (Returned /\ NamesVariable(lat_var) /\ NamesVariable(lon_var)
          /\ \A k \in 1..Len(Catalog) : ~Candidate(k))
           => ret = NoResult /\ msg = "warn_data"

\* C8 witness: a result has been returned for a catalog with two candidates
\* and a non-axis variable of rank 1
C8_Witness ==
    /\ Returned
    /\ ret # NoResult
    /\ \E k1, k2 \in 1..Len(Catalog) : k1 # k2 /\ Candidate(k1) /\ Candidate(k2)

\* the loop stands at a grid cell whose body reaches the conversion of the
\* measurement cell, and that cell is a sub-array of other than one element
\* (the measurement has rank 3), which float() cannot convert
AtUnconvertibleCell ==
    /\ pc = "loop"
    /\ i < lat_grid.shape[1]
    /\ Len(lat_grid.shape) = 2
    /\ j < lat_grid.shape[2]
    /\ data.shape[1] > i /\ data.shape[2] > j
    /\ Len(lon_grid.shape) = 2
    /\ i < lon_grid.shape[1] /\ j < lon_grid.shape[2]
    /\ Len(data.shape) = 3
    /\ data.shape[3] # 1

\* C9 (as claimed): a cell that cannot be converted makes the point's value
\* absent and the walk goes on to the next cell.
C9_FailedConversionIsAbsent ==
    [][ AtUnconvertibleCell =>
            /\ pc' = "loop"
            /\ j' = j + 1
            /\ ~filter_nan =>
                  /\ Len(data_points') = Len(data_points) + 1
                  /\ data_points'[Len(data_points')].value = AbsentCell ]_vars

\* C9 (amended): a cell that cannot be converted raises inside
\* parse_nc_file; the handler of lines 173-175 catches it, the call returns
\* None (the points collected so far are dropped) and the file is closed.
C9_FailedConversionAborts ==
    [][ AtUnconvertibleCell =>
            /\ pc' = "returned"
            /\ ret' = NoResult
            /\ msg' = "error"
            /\ ~handle_open' ]_vars

\* C9 witness: a call has returned None through the handler from a cell of
\* a rank-3 measurement
C9_Witness ==
    /\ Returned
    /\ ret = NoResult
    /\ msg = "error"
    /\ Len(data.shape) = 3
    /\ data.shape[3] # 1
    /\ Len(lat_grid.shape) = 2
    /\ Len(lon_grid.shape) = 2
    /\ i < lat_grid.shape[1] /\ j < lat_grid.shape[2]
    /\ data.shape[1] > i /\ data.shape[2] > j

\* C10 (as claimed): a call that read a 1-D latitude and a 2-D longitude,
\* or a 2-D latitude and a 1-D longitude, returns None.
C10_MixedAxesFail ==
    (Returned /\ ( \/ Len(lats.shape) = 1 /\ Len(lons.shape) = 2
                   \/ Len(lats.shape) = 2 /\ Len(lons.shape) = 1 ))
        => ret = NoResult

\* the measurement variable of the call, as the file declares it
MeasurementVar == Variable(nc_file, data_var_name)

\* the number that stands for "absent" by the priority of lines 113-116:
\* <<_FillValue>> when declared, else <<missing_value>> when declared, else
\* no number
ChosenSentinel(var) ==
    IF var.has_fill THEN <<var.fill>>
    ELSE IF var.has_missing THEN <<var.missing>> ELSE <<>>

\* the stored cell holds the number of the chosen sentinel
EqualsChosenSentinel(var, p) ==
    /\ ChosenSentinel(var) # <<>>
    /\ StoredAt(var, p) = Num(ChosenSentinel(var)[1])

\* C11 (as claimed): once the measurement is normalised, a cell is the
\* absent marker exactly when the value stored in the file equals the
\* sentinel chosen by the priority _FillValue, then missing_value, then
\* none, and every other cell holds its stored value; with both attributes
\* declared a cell equal only to missing_value stays numeric.
C11_SentinelByPriority ==
    pc = "grid" =>
        \A p \in DOMAIN data.at :
            IF EqualsChosenSentinel(MeasurementVar, p)
            THEN data.at[p] = AbsentCell
            ELSE data.at[p] = StoredAt(MeasurementVar, p)

\* the call is between its opening of the Dataset and its exit
InsideWith ==
    pc \in {"scan", "dims", "axes", "select", "normalize", "grid", "loop", "assemble"}

\* C12: a call of parse_nc_file that has returned, by whichever exit (a
\* result, the axis warning, the measurement warning, or an exception
\* caught by the handler), has no open file handle; the handle is open
\* exactly while the call is inside its `with` block, so main never holds
\* an open handle between calls or while it writes.
C12_HandleClosedOnReturn ==
    /\ Returned => ~handle_open
    /\ handle_open <=> InsideWith
    /\ mpc \in {"write", "done", "crashed"} => ~handle_open

\* C12 witness: a call that had opened the file and walked into the grid has
\* returned None through the exception handler, and the handle is closed
C12_Witness ==
    /\ Returned
    /\ nc_file.readable
    /\ ret = NoResult
    /\ msg = "error"
    /\ lat_grid # NoArray
    /\ ~handle_open

\* main has ended: it returned, or an exception left it
MainEnded == mpc \in {"done", "crashed"}

\* the results main collected that were extracted from the file f
ResultsOf(results, f) ==
    { n \in 1..Len(results) : results[n].file_info.filename = f.filename }

\* the artifacts written under the name `name`
ArtifactsNamed(name) == { art \in artifacts : art.name = name }

\* C13 (as claimed): when main has ended, every file whose extraction
\* succeeded has the artifacts <its base name>_all.json and <its base
\* name>_filtered.json holding that same file's two results, and no
\* artifact bears the name of a file whose extraction failed, whatever the
\* list of files and whichever of them failed.
C13_FailedFileSkipped ==
    MainEnded =>
        \A k \in 1..Len(nc_files) :
            LET f == nc_files[k]
            IN  /\ \A n \in ResultsOf(all_results, f) :
                      ArtifactsNamed(AllName(f)) =
                          {[name |-> AllName(f), content |-> <<all_results[n]>>]}
                /\ \A n \in ResultsOf(filtered_results, f) :
                      ArtifactsNamed(FilteredName(f)) =
                          {[name |-> FilteredName(f),
                            content |-> <<filtered_results[n]>>]}
                /\ ResultsOf(all_results, f) = {}
                      => ArtifactsNamed(AllName(f)) = {}
                /\ ResultsOf(filtered_results, f) = {}
                      => ArtifactsNamed(FilteredName(f)) = {}

====
